---- MODULE Spec2Model ----
(***************************************************************************)
(* Model of script/read_osm_map.py: the parsed OSM dataset (nodes, ways,   *)
(* way_tags), the node -> ways index built by build_node_to_ways_index,    *)
(* and the query functions find_ways_by_name, get_way_nodes_with_coords,   *)
(* find_connected_ways, find_next_street_segments and                      *)
(* find_intersecting_streets.                                              *)
(*                                                                         *)
(* A Python dict is modelled as a TLA+ function whose DOMAIN is the set of *)
(* keys; the iteration (insertion) order of ways / way_tags is kept in     *)
(* way_order.  A Python str is a sequence of one-character strings.  A tag *)
(* dict is a set of <<key, value>> pairs with at most one pair per key.    *)
(***************************************************************************)
EXTENDS Integers, Sequences, FiniteSets, TLC

VARIABLES nodes, ways, way_tags, way_order, node_to_ways, pc, op, arg, result

vars == <<nodes, ways, way_tags, way_order, node_to_ways, pc, op, arg, result>>

dataset == <<nodes, ways, way_tags, way_order, node_to_ways>>

(* ---------------------------- bounds ----------------------------------- *)
MaxWays == 2
MaxNodes == 2
MaxLen == 3
MaxNameLen == 1

WayIds == 1..MaxWays
NodeIds == 1..MaxNodes
Chars == {"a", "A", "b"}

(* ---------------------------- helpers ---------------------------------- *)
Range(s) == {s[i] : i \in DOMAIN s}

SeqsUpTo(S, n) == UNION {[1..k -> S] : k \in 0..n}

Count(s, x) == Cardinality({i \in DOMAIN s : s[i] = x})

IsInjective(s) == \A i, j \in DOMAIN s : s[i] = s[j] => i = j

EmptyDict == [k \in {} |-> <<>>]

(* str.lower(), character by character *)
LowerChar(c) == IF c = "A" THEN "a" ELSE IF c = "B" THEN "b" ELSE c

lower(s) == [i \in DOMAIN s |-> LowerChar(s[i])]

(* dict.get(key, default) on a plain dict *)
DictGet(d, k, default) == IF k \in DOMAIN d THEN d[k] ELSE default

(* tags.get(key, default) on a tag dict *)
TagGet(tags, k, default) ==
    IF \E p \in tags : p[1] = k
    THEN (CHOOSE p \in tags : p[1] = k)[2]
    ELSE default

(* way_tags.get(way_id, {}).get('name', '') *)
NameOf(way_id, wt) == TagGet(DictGet(wt, way_id, {}), "name", <<>>)

(* node_to_ways.get(node_ref, []) on the defaultdict: the value read and   *)
(* the index as the lookup leaves it (dict.get never inserts a key)        *)
IndexLookupPop(idx, n) ==
    [value |-> IF n \in DOMAIN idx THEN idx[n] ELSE <<>>,
     index |-> [m \in DOMAIN idx \ {n} |-> idx[m]]]

IndexLookup(idx, n) ==
    [value |-> IF n \in DOMAIN idx THEN idx[n] ELSE <<>>, index |-> idx]

Bucket(idx, n) == IndexLookup(idx, n).value

(* the index after looking up, in turn, every node of refs *)
RECURSIVE IndexAfterScan(_, _)
IndexAfterScan(idx, refs) ==
    IF refs = <<>> THEN idx
    ELSE IndexAfterScan(IndexLookup(idx, Head(refs)).index, Tail(refs))

(* ------------------------ build_node_to_ways_index --------------------- *)
(* node_to_ways[node_ref].append(way_id) on the defaultdict(list) *)
AppendToBucketFront(idx, n, w) ==
    [m \in DOMAIN idx \cup {n} |->
        IF m = n THEN (IF n \in DOMAIN idx THEN <<w>> \o idx[n] ELSE <<w>>)
        ELSE idx[m]]

AppendToBucket(idx, n, w) ==
    [m \in DOMAIN idx \cup {n} |->
        IF m = n THEN (IF n \in DOMAIN idx THEN Append(idx[n], w) ELSE <<w>>)
        ELSE idx[m]]

(* the inner loop: for node_ref in node_refs *)
RECURSIVE IndexWay(_, _, _)
IndexWay(idx, w, refs) ==
    IF refs = <<>> THEN idx
    ELSE IndexWay(AppendToBucket(idx, Head(refs), w), w, Tail(refs))

(* the outer loop: for way_id, node_refs in ways.items() *)
RECURSIVE IndexWays(_, _, _)
IndexWays(idx, ws, order) ==
    IF order = <<>> THEN idx
    ELSE IndexWays(IndexWay(idx, Head(order), ws[Head(order)]), ws, Tail(order))

build_index_without_last_way(ws, order) ==
    IndexWays(EmptyDict, ws, SubSeq(order, 1, Len(order) - 1))

build_node_to_ways_index(ws, order) == IndexWays(EmptyDict, ws, order)

(* ---------------------------- state ------------------------------------ *)
NameValues == SeqsUpTo(Chars, MaxNameLen)

TagDicts == {{}} \cup {{<<"name", v>>} : v \in NameValues}

Coord(n) == <<n, n + MaxNodes>>

TypeOK ==
    /\ pc \in {"parsed", "indexed"}
    /\ IsInjective(way_order)
    /\ DOMAIN ways = Range(way_order)
    /\ DOMAIN way_tags = Range(way_order)

(* the state parse_osm_file returns: nodes, ways, way_tags *)
Init ==
    /\ way_order \in {s \in SeqsUpTo(WayIds, MaxWays) : IsInjective(s)}
    /\ ways \in [Range(way_order) -> SeqsUpTo(NodeIds, MaxLen)]
    /\ way_tags \in [Range(way_order) -> TagDicts]
    /\ \E S \in SUBSET NodeIds : nodes = [n \in S |-> Coord(n)]
    /\ node_to_ways = EmptyDict
    /\ pc = "parsed"
    /\ op = "parse_osm_file"
    /\ arg = <<>>
    /\ result = <<>>

BuildIndex ==
    /\ pc = "parsed"
    /\ node_to_ways' = build_node_to_ways_index(ways, way_order)
    /\ pc' = "indexed"
    /\ op' = "build_node_to_ways_index"
    /\ arg' = <<>>
    /\ result' = <<>>
    /\ UNCHANGED <<nodes, ways, way_tags, way_order>>

(* ---------------------------- queries ---------------------------------- *)
MapSeq(s, f(_)) == [i \in DOMAIN s |-> f(s[i])]

find_ways_by_name_case_sensitive(street_name, wt, order) ==
    LET matches(w) == TagGet(wt[w], "name", <<>>) = street_name
    IN  SelectSeq(order, matches)

(* find_ways_by_name: for way_id, tags in way_tags.items() *)
find_ways_by_name(street_name, wt, order) ==
    LET matches(w) == lower(TagGet(wt[w], "name", <<>>)) = lower(street_name)
    IN  SelectSeq(order, matches)

get_way_nodes_with_coords_stop_at_missing(way_id, ws, nds) ==
    LET way_nodes == DictGet(ws, way_id, <<>>)
        missing == {i \in DOMAIN way_nodes : way_nodes[i] \notin DOMAIN nds}
        k == IF missing = {} THEN Len(way_nodes)
             ELSE (CHOOSE i \in missing : \A j \in missing : i <= j) - 1
    IN  [i \in 1..k |-> [node_id |-> way_nodes[i],
                         lat |-> nds[way_nodes[i]][1],
                         lon |-> nds[way_nodes[i]][2]]]

(* get_way_nodes_with_coords *)
get_way_nodes_with_coords(way_id, ws, nds) ==
    LET way_nodes == DictGet(ws, way_id, <<>>)
        known(n) == n \in DOMAIN nds
        entry(n) == [node_id |-> n, lat |-> nds[n][1], lon |-> nds[n][2]]
    IN  MapSeq(SelectSeq(way_nodes, known), entry)

find_connected_ways_endpoints_only(way_id, ws, idx) ==
    LET way_nodes == DictGet(ws, way_id, <<>>)
    IN  IF way_nodes = <<>> THEN {}
        ELSE {c \in Range(Bucket(idx, way_nodes[1]))
                    \cup Range(Bucket(idx, way_nodes[Len(way_nodes)])) : c # way_id}

find_connected_ways_with_self(way_id, ws, idx) ==
    UNION {Range(Bucket(idx, DictGet(ws, way_id, <<>>)[i])) :
              i \in DOMAIN DictGet(ws, way_id, <<>>)}

(* find_connected_ways: the set built by the two nested loops *)
find_connected_ways(way_id, ws, idx) ==
    LET way_nodes == DictGet(ws, way_id, <<>>)
    IN  {c \in UNION {Range(Bucket(idx, way_nodes[i])) : i \in DOMAIN way_nodes} :
            c # way_id}

NextAtNodeAnyName(way_id, node_ref, idx, wt) ==
    LET street_name == NameOf(way_id, wt)
        keep(c) == c # way_id
        entry(c) == [way_id |-> c,
                     name |-> NameOf(c, wt),
                     shared_node |-> node_ref,
                     is_same_name |-> (street_name = NameOf(c, wt))]
    IN  [i \in DOMAIN SelectSeq(Bucket(idx, node_ref), keep) |->
            entry(SelectSeq(Bucket(idx, node_ref), keep)[i])]

NextAtNodeNamedOnly(way_id, node_ref, idx, wt) ==
    LET street_name == NameOf(way_id, wt)
        keep(c) == /\ c # way_id
                   /\ \/ street_name = <<>>
                      \/ street_name = NameOf(c, wt)
        entry(c) == [way_id |-> c,
                     name |-> NameOf(c, wt),
                     shared_node |-> node_ref,
                     is_same_name |-> (street_name = NameOf(c, wt))]
    IN  [i \in DOMAIN SelectSeq(Bucket(idx, node_ref), keep) |->
            entry(SelectSeq(Bucket(idx, node_ref), keep)[i])]

(* the body of "for connected_way_id in node_to_ways.get(node_ref, [])" of  *)
(* find_next_street_segments, for one node_ref                              *)
NextAtNode(way_id, node_ref, idx, wt) ==
    LET street_name == NameOf(way_id, wt)
        keep(c) == /\ c # way_id
                   /\ \/ street_name = <<>>
                      \/ NameOf(c, wt) = <<>>
                      \/ street_name = NameOf(c, wt)
        entry(c) == [way_id |-> c,
                     name |-> NameOf(c, wt),
                     shared_node |-> node_ref,
                     is_same_name |-> (street_name = NameOf(c, wt))]
    IN  MapSeq(SelectSeq(Bucket(idx, node_ref), keep), entry)

(* end_nodes = [way_nodes[0], way_nodes[-1]] *)
end_nodes(way_nodes) == <<way_nodes[1], way_nodes[Len(way_nodes)]>>

find_next_street_segments_unguarded(way_id, ws, idx, wt) ==
    LET way_nodes == DictGet(ws, way_id, <<>>)
    IN  IF way_nodes = <<>> THEN <<"IndexError">>
        ELSE NextAtNode(way_id, end_nodes(way_nodes)[1], idx, wt)
             \o NextAtNode(way_id, end_nodes(way_nodes)[2], idx, wt)

find_next_street_segments(way_id, ws, idx, wt) ==
    LET way_nodes == DictGet(ws, way_id, <<>>)
    IN  IF way_nodes = <<>> THEN <<>>
        ELSE NextAtNode(way_id, end_nodes(way_nodes)[1], idx, wt)
             \o NextAtNode(way_id, end_nodes(way_nodes)[2], idx, wt)

IntersectAtNodeAnyOwnName(way_id, node_ref, idx, wt) ==
    LET street_name == NameOf(way_id, wt)
        keep(c) == /\ c # way_id
                   /\ NameOf(c, wt) # <<>>
                   /\ street_name # NameOf(c, wt)
        entry(c) == [way_id |-> c,
                     name |-> NameOf(c, wt),
                     shared_node |-> node_ref]
    IN  [i \in DOMAIN SelectSeq(Bucket(idx, node_ref), keep) |->
            entry(SelectSeq(Bucket(idx, node_ref), keep)[i])]

(* the body of the inner loop of find_intersecting_streets, for one node_ref *)
IntersectAtNode(way_id, node_ref, idx, wt) ==
    LET street_name == NameOf(way_id, wt)
        keep(c) == /\ c # way_id
                   /\ street_name # <<>>
                   /\ NameOf(c, wt) # <<>>
                   /\ street_name # NameOf(c, wt)
        entry(c) == [way_id |-> c,
                     name |-> NameOf(c, wt),
                     shared_node |-> node_ref]
    IN  MapSeq(SelectSeq(Bucket(idx, node_ref), keep), entry)

(* for node_ref in way_nodes *)
RECURSIVE IntersectScan(_, _, _, _)
IntersectScan(way_id, refs, idx, wt) ==
    IF refs = <<>> THEN <<>>
    ELSE IntersectAtNode(way_id, Head(refs), idx, wt)
         \o IntersectScan(way_id, Tail(refs), idx, wt)

find_intersecting_streets(way_id, ws, idx, wt) ==
    LET way_nodes == DictGet(ws, way_id, <<>>)
    IN  IF way_nodes = <<>> THEN <<>>
        ELSE IntersectScan(way_id, way_nodes, idx, wt)

(* ---------------------------- actions ---------------------------------- *)
FindWaysByName ==
    /\ pc = "indexed"
    /\ \E street_name \in NameValues :
        /\ result' = find_ways_by_name(street_name, way_tags, way_order)
        /\ arg' = street_name
    /\ op' = "find_ways_by_name"
    /\ UNCHANGED <<nodes, ways, way_tags, way_order, node_to_ways, pc>>

GetWayNodesWithCoords ==
    /\ pc = "indexed"
    /\ \E way_id \in WayIds :
        /\ result' = get_way_nodes_with_coords(way_id, ways, nodes)
        /\ arg' = way_id
    /\ op' = "get_way_nodes_with_coords"
    /\ UNCHANGED <<nodes, ways, way_tags, way_order, node_to_ways, pc>>

FindConnectedWays ==
    /\ pc = "indexed"
    /\ \E way_id \in WayIds :
        /\ result' = find_connected_ways(way_id, ways, node_to_ways)
        /\ node_to_ways' = IndexAfterScan(node_to_ways, DictGet(ways, way_id, <<>>))
        /\ arg' = way_id
    /\ op' = "find_connected_ways"
    /\ UNCHANGED <<nodes, ways, way_tags, way_order, pc>>

FindNextStreetSegments ==
    /\ pc = "indexed"
    /\ \E way_id \in WayIds :
        /\ result' = find_next_street_segments(way_id, ways, node_to_ways, way_tags)
        /\ node_to_ways' =
              IF DictGet(ways, way_id, <<>>) = <<>> THEN node_to_ways
              ELSE IndexAfterScan(node_to_ways, end_nodes(DictGet(ways, way_id, <<>>)))
        /\ arg' = way_id
    /\ op' = "find_next_street_segments"
    /\ UNCHANGED <<nodes, ways, way_tags, way_order, pc>>

FindIntersectingStreets ==
    /\ pc = "indexed"
    /\ \E way_id \in WayIds :
        /\ result' = find_intersecting_streets(way_id, ways, node_to_ways, way_tags)
        /\ node_to_ways' = IndexAfterScan(node_to_ways, DictGet(ways, way_id, <<>>))
        /\ arg' = way_id
    /\ op' = "find_intersecting_streets"
    /\ UNCHANGED <<nodes, ways, way_tags, way_order, pc>>

Query ==
    \/ FindWaysByName
    \/ GetWayNodesWithCoords
    \/ FindConnectedWays
    \/ FindNextStreetSegments
    \/ FindIntersectingStreets

Next == BuildIndex \/ Query

Spec == Init /\ [][Next]_vars
(* ------------------------ vocabulary of the properties ------------------ *)
HasNameTag(w) == w \in DOMAIN way_tags /\ \E p \in way_tags[w] : p[1] = "name"

WayName(w) ==
    IF HasNameTag(w)
    THEN CHOOSE v \in NameValues : <<"name", v>> \in way_tags[w]
    ELSE <<>>

NamesDistinguish(w, c) ==
    WayName(w) # <<>> /\ WayName(c) # <<>> /\ WayName(w) # WayName(c)

NodesOf(w) == IF w \in DOMAIN ways THEN ways[w] ELSE <<>>

Endpoints(w) ==
    IF NodesOf(w) = <<>> THEN {} ELSE {NodesOf(w)[1], NodesOf(w)[Len(NodesOf(w))]}

Shares(c, n) == n \in Range(NodesOf(c))

InBucket(c, n) == n \in DOMAIN node_to_ways /\ c \in Range(node_to_ways[n])

NextEntry(w, c, n) ==
    [way_id |-> c, name |-> WayName(c), shared_node |-> n,
     is_same_name |-> (WayName(w) = WayName(c))]

AfterNext == op = "find_next_street_segments"
AfterConnected == op = "find_connected_ways"
AfterIntersecting == op = "find_intersecting_streets"

(* C1 as stated: after find_next_street_segments(W) on a way W with a      *)
(* non-empty node sequence, every other way C sharing W's first or last    *)
(* node is reported, whatever the two names are, with the shared node,     *)
(* C's name and is_same_name = (W.name == C.name).                         *)
C1_EveryEndpointSharerReported ==
    (AfterNext /\ NodesOf(arg) # <<>>) =>
        \A n \in Endpoints(arg) : \A c \in WayIds \ {arg} :
            Shares(c, n) => \E i \in DOMAIN result : result[i] = NextEntry(arg, c, n)

(* C1 amended: after find_next_street_segments(W) on a way W with a        *)
(* non-empty node sequence, another way C sharing W's first or last node   *)
(* is reported (shared node, C's name, is_same_name = (W.name == C.name))  *)
(* exactly when W's name or C's name is missing or empty or the two names  *)
(* are equal; a sharer whose non-empty name differs from W's non-empty     *)
(* name is not reported, and nothing else is reported.                     *)
C1_EndpointSharerReportedUnlessNamesDiffer ==
    (AfterNext /\ NodesOf(arg) # <<>>) =>
        /\ \A n \in Endpoints(arg) : \A c \in WayIds \ {arg} :
              Shares(c, n) =>
                 ((\E i \in DOMAIN result : result[i] = NextEntry(arg, c, n))
                    <=> ~NamesDistinguish(arg, c))
        /\ \A i \in DOMAIN result :
              \E n \in Endpoints(arg) : \E c \in WayIds \ {arg} :
                  Shares(c, n) /\ result[i] = NextEntry(arg, c, n)

(* C1 witness: find_next_street_segments has run on a way that shares an   *)
(* endpoint with a way of a different non-empty name, and has reported     *)
(* nothing.                                                                *)
C1_Witness ==
    /\ AfterNext
    /\ NodesOf(arg) # <<>>
    /\ \E n \in Endpoints(arg) : \E c \in WayIds \ {arg} :
          Shares(c, n) /\ NamesDistinguish(arg, c)
    /\ result = <<>>

(* C2: after find_connected_ways(W) the result is exactly the set of way   *)
(* ids other than W found in the index bucket of at least one node of W's  *)
(* node sequence, and it never contains W.                                 *)
C2_ConnectedIsBucketUnionMinusSelf ==
    AfterConnected =>
        /\ result = {c \in WayIds \ {arg} :
                        \E n \in Range(NodesOf(arg)) : InBucket(c, n)}
        /\ arg \notin result

(* C2 witness: find_connected_ways has run on a way that revisits a node,  *)
(* is listed more than once in that node's bucket, and has a neighbour.    *)
C2_Witness ==
    /\ AfterConnected
    /\ \E n \in Range(NodesOf(arg)) :
          /\ Count(NodesOf(arg), n) > 1
          /\ Count(node_to_ways[n], arg) > 1
    /\ result # {}

(* C3: after find_intersecting_streets(W), a way C is reported at node n   *)
(* exactly when n is a node of W, C is a way other than W in the bucket of *)
(* n, both names are non-empty and they differ; each entry carries C's     *)
(* name.                                                                   *)
C3_IntersectingExactlyDistinctNamedSharers ==
    AfterIntersecting =>
        /\ {<<result[i].way_id, result[i].shared_node>> : i \in DOMAIN result}
              = {p \in (WayIds \ {arg}) \X Range(NodesOf(arg)) :
                    InBucket(p[1], p[2]) /\ NamesDistinguish(arg, p[1])}
        /\ \A i \in DOMAIN result : result[i].name = WayName(result[i].way_id)

(* C3 witness: find_intersecting_streets has reported a way that shares    *)
(* only an interior node of W.                                             *)
C3_Witness ==
    /\ AfterIntersecting
    /\ Len(NodesOf(arg)) = 3
    /\ \E i \in DOMAIN result :
          /\ result[i].shared_node = NodesOf(arg)[2]
          /\ result[i].shared_node \notin Endpoints(arg)

(* C4: over the index built from the same ways, every way id reported by  *)
(* find_intersecting_streets(W) or by find_next_street_segments(W) is in   *)
(* find_connected_ways(W).                                                 *)
C4_ReportedWaysAreConnected ==
    (AfterNext \/ AfterIntersecting) =>
        {result[i].way_id : i \in DOMAIN result}
            \subseteq find_connected_ways(arg, ways, node_to_ways)

(* C4 witness: find_intersecting_streets has reported a way at an interior *)
(* node of W that is on neither endpoint's bucket.                         *)
C4_Witness ==
    /\ AfterIntersecting
    /\ \E i \in DOMAIN result :
          /\ result[i].shared_node \notin Endpoints(arg)
          /\ \A n \in Endpoints(arg) : ~InBucket(result[i].way_id, n)

(* C5 as stated: after find_next_street_segments(W) on a way W of a single *)
(* node, each other way is reported at most once per occurrence of it in   *)
(* that node's bucket (the endpoint is scanned once, not twice).           *)
C5_SingleNodeWayScannedOnce ==
    (AfterNext /\ Len(NodesOf(arg)) = 1) =>
        \A c \in WayIds \ {arg} :
            Cardinality({i \in DOMAIN result : result[i].way_id = c})
                <= Count(node_to_ways[NodesOf(arg)[1]], c)

(* C6: with the index built from the full set of ways, for all ways A # B, *)
(* B is in find_connected_ways(A) iff A is in find_connected_ways(B).      *)
C6_ConnectedIsSymmetric ==
    AfterConnected =>
        \A b \in WayIds \ {arg} :
            b \in result <=> arg \in find_connected_ways(b, ways, node_to_ways)

(* C6 witness: find_connected_ways(A) has returned a way B that touches A  *)
(* only at a node that is interior to one of the two.                      *)
C6_Witness ==
    /\ AfterConnected
    /\ \E b \in result :
          /\ arg \in find_connected_ways(b, ways, node_to_ways)
          /\ Endpoints(arg) \cap Endpoints(b) = {}

BucketOf(n) == IF n \in DOMAIN node_to_ways THEN node_to_ways[n] ELSE <<>>

Pos(w) == CHOOSE k \in DOMAIN way_order : way_order[k] = w

(* C7: after build_node_to_ways_index(ways), way w occurs in the bucket of *)
(* node n exactly as many times as n occurs in w's node sequence, a node   *)
(* referenced by no way has no bucket, and the way ids of a bucket are in  *)
(* the order in which the ways were processed.                             *)
C7_BucketsCountOccurrencesInOrder ==
    pc = "indexed" =>
        /\ \A n \in NodeIds : \A w \in WayIds :
              Count(BucketOf(n), w) = Count(NodesOf(w), n)
        /\ \A n \in NodeIds :
              n \in DOMAIN node_to_ways <=> \E w \in DOMAIN ways : Shares(w, n)
        /\ \A n \in DOMAIN node_to_ways :
              /\ Range(node_to_ways[n]) \subseteq DOMAIN ways
              /\ \A i, j \in DOMAIN node_to_ways[n] :
                    i < j => Pos(node_to_ways[n][i]) <= Pos(node_to_ways[n][j])

(* C7 witness: the index has just been built, one bucket lists a way twice *)
(* followed by a second way with a smaller id, and one node has no bucket. *)
C7_Witness ==
    /\ op = "build_node_to_ways_index"
    /\ \E n \in DOMAIN node_to_ways :
          /\ Len(node_to_ways[n]) = 3
          /\ node_to_ways[n][1] = node_to_ways[n][2]
          /\ node_to_ways[n][3] < node_to_ways[n][1]
    /\ \E n \in NodeIds : n \notin DOMAIN node_to_ways

SameLetter(c, d) == c = d \/ {c, d} = {"a", "A"} \/ {c, d} = {"b", "B"}

CaseInsensitiveEqual(s, t) ==
    Len(s) = Len(t) /\ \A i \in DOMAIN s : SameLetter(s[i], t[i])

AfterByName == op = "find_ways_by_name"

(* C8: find_ways_by_name(name) returns exactly the ways whose name tag (a  *)
(* missing tag reads as the empty string) equals the query up to letter    *)
(* case, each once; a way without a name tag is never returned for a       *)
(* non-empty query; with no match the result is the empty list.            *)
C8_ByNameIsCaseInsensitiveMatch ==
    AfterByName =>
        /\ \A w \in WayIds :
              w \in Range(result) <=>
                 /\ w \in DOMAIN way_tags
                 /\ IF HasNameTag(w) THEN CaseInsensitiveEqual(WayName(w), arg)
                                     ELSE arg = <<>>
        /\ arg # <<>> => \A w \in Range(result) : HasNameTag(w)
        /\ IsInjective(result)
        /\ (\A w \in DOMAIN way_tags : ~CaseInsensitiveEqual(WayName(w), arg))
              => result = <<>>

(* C8 witness: a non-empty query has returned a way whose name differs     *)
(* from it in letter case only, and has left out a way without a name tag. *)
C8_Witness ==
    /\ AfterByName
    /\ arg # <<>>
    /\ \E w \in Range(result) : WayName(w) # arg
    /\ \E w \in DOMAIN way_tags : ~HasNameTag(w) /\ w \notin Range(result)

(* C9: for a way with an empty node sequence, and for a way id that is not *)
(* in the dataset, find_connected_ways returns the empty set and           *)
(* find_next_street_segments and find_intersecting_streets the empty list; *)
(* none of them ends in an error.                                          *)
C9_EmptyWayYieldsEmptyResults ==
    /\ (AfterConnected /\ NodesOf(arg) = <<>>) => result = {}
    /\ ((AfterNext \/ AfterIntersecting) /\ NodesOf(arg) = <<>>) => result = <<>>

(* C9 witness: find_next_street_segments has run on a way of the dataset   *)
(* whose node sequence is empty while the index is not empty.              *)
C9_Witness ==
    /\ AfterNext
    /\ arg \in DOMAIN ways
    /\ ways[arg] = <<>>
    /\ result = <<>>
    /\ DOMAIN node_to_ways # {}

QueryOps == {"find_ways_by_name", "get_way_nodes_with_coords",
             "find_connected_ways", "find_next_street_segments",
             "find_intersecting_streets"}

AfterCoords == op = "get_way_nodes_with_coords"

InNodeTable(n) == n \in DOMAIN nodes

(* C11: a node reference absent from the node table is tolerated: once the *)
(* index is built every way is in the bucket of each of its node           *)
(* references, resolved or not; find_connected_ways(W) contains every      *)
(* other way sharing a node with W; and get_way_nodes_with_coords(W) is,   *)
(* in W's traversal order, exactly the entries of W's node sequence whose  *)
(* id is in the node table, each with that node's coordinates.             *)
C11_MissingNodesToleratedAndSkipped ==
    /\ pc = "indexed" =>
          \A w \in DOMAIN ways : \A n \in Range(ways[w]) : InBucket(w, n)
    /\ AfterConnected =>
          \A c \in DOMAIN ways \ {arg} :
              (\E n \in Range(NodesOf(arg)) : Shares(c, n)) => c \in result
    /\ AfterCoords =>
          /\ [i \in DOMAIN result |-> result[i].node_id]
                = SelectSeq(NodesOf(arg), InNodeTable)
          /\ \A i \in DOMAIN result :
                /\ result[i].lat = nodes[result[i].node_id][1]
                /\ result[i].lon = nodes[result[i].node_id][2]

(* C11 witness: get_way_nodes_with_coords has run on an indexed way whose  *)
(* node sequence holds an unresolved id before a resolved one, the way     *)
(* being listed in the bucket of the unresolved node, which another way    *)
(* shares.                                                                 *)
C11_Witness ==
    /\ AfterCoords
    /\ result # <<>>
    /\ \E i, j \in DOMAIN NodesOf(arg) :
          /\ i < j
          /\ ~InNodeTable(NodesOf(arg)[i])
          /\ InNodeTable(NodesOf(arg)[j])
          /\ InBucket(arg, NodesOf(arg)[i])
          /\ \E c \in DOMAIN ways \ {arg} : Shares(c, NodesOf(arg)[i])

ReportedIn(entries, c, n) ==
    \E i \in DOMAIN entries :
        entries[i].way_id = c /\ entries[i].shared_node = n

(* what the two scans of way w return on the current dataset: the result   *)
(* of the one that has just run and the value of the other                 *)
NextOf(w) ==
    IF AfterNext THEN result
    ELSE find_next_street_segments(w, ways, node_to_ways, way_tags)

IntersectingOf(w) ==
    IF AfterIntersecting THEN result
    ELSE find_intersecting_streets(w, ways, node_to_ways, way_tags)

(* C12: for a way W with a non-empty node sequence, every endpoint e of W  *)
(* and every other way C in the bucket of e, the pair (C, e) is reported   *)
(* by exactly one of find_next_street_segments(W) and                      *)
(* find_intersecting_streets(W): by the former when a name is missing or   *)
(* empty or the names are equal, by the latter when both names are         *)
(* non-empty and differ.                                                   *)
C12_ContinuationAndIntersectionComplementary ==
    ((AfterNext \/ AfterIntersecting) /\ NodesOf(arg) # <<>>) =>
        \A e \in Endpoints(arg) : \A c \in WayIds \ {arg} :
            InBucket(c, e) =>
                /\ ReportedIn(NextOf(arg), c, e) <=> ~NamesDistinguish(arg, c)
                /\ ReportedIn(IntersectingOf(arg), c, e) <=> NamesDistinguish(arg, c)
                /\ ReportedIn(NextOf(arg), c, e) # ReportedIn(IntersectingOf(arg), c, e)

(* C12 witness: find_intersecting_streets has reported a way at an         *)
(* endpoint of W, and find_next_street_segments(W) does not report it.     *)
C12_Witness ==
    /\ AfterIntersecting
    /\ \E i \in DOMAIN result :
          /\ result[i].shared_node \in Endpoints(arg)
          /\ ~ReportedIn(find_next_street_segments(arg, ways, node_to_ways, way_tags),
                         result[i].way_id, result[i].shared_node)

====
